---- MODULE Spec2Model ----
(***************************************************************************)
(* A model of the concurrent TCP port scanner of src/main.go: main, its    *)
(* helpers parseTargets and parsePorts, the worker pool of scanHost with   *)
(* its feeder, workers, progress monitor and closer goroutines, the probe  *)
(* scanPort, and generateOutput.                                           *)
(*                                                                         *)
(* A Go string is modelled as a sequence of one-character strings, so that *)
(* splitting, trimming and integer parsing are computed, not assumed.      *)
(***************************************************************************)
EXTENDS Integers, Sequences, FiniteSets, Bags, TLC

\* ------------------------------------------------------------------ bounds
\* The most workers the -workers flag asks for in the explored runs.
MaxWorkers == 2
\* The most entries of the -ports list in the explored scanning runs.
MaxLen == 2
\* The most entries of the -targets list in the explored runs.
MaxTargets == 2
\* The most entries of a -ports list handed to parsePorts alone.
MaxEntries == 2

\* --------------------------------------------------------- program constants
\* The largest valid port (main.go:183).
MaxPort == 65535
\* The size of the banner read buffer (main.go:160).
BufSize == 256

\* ------------------------------------------------------------------ strings
Digits == <<"0", "1", "2", "3", "4", "5", "6", "7", "8", "9">>

IsDigit(c) == \E i \in 1..10 : Digits[i] = c

DigitVal(c) == (CHOOSE i \in 1..10 : Digits[i] = c) - 1

\* The white space unicode.IsSpace knows, as far as the explored inputs use it.
IsSpace(c) == c \in {" ", "\t", "\n", "\r", "\f"}

Take(s, n) == SubSeq(s, 1, IF n < Len(s) THEN n ELSE Len(s))

\* strings.TrimSpace: s without its leading and trailing white space.
RECURSIVE TrimLeft(_)
TrimLeft(s) ==
    IF s # <<>> /\ IsSpace(Head(s)) THEN TrimLeft(Tail(s)) ELSE s

RECURSIVE TrimRight(_)
TrimRight(s) ==
    IF s # <<>> /\ IsSpace(s[Len(s)]) THEN TrimRight(SubSeq(s, 1, Len(s) - 1)) ELSE s

TrimSpace(s) == TrimRight(TrimLeft(s))

\* strings.Split(s, ","): the pieces of s between commas; always at least one.
RECURSIVE SplitFrom(_, _, _)
SplitFrom(s, i, cur) ==
    IF i > Len(s) THEN <<cur>>
    ELSE IF s[i] = "," THEN <<cur>> \o SplitFrom(s, i + 1, <<>>)
    ELSE SplitFrom(s, i + 1, Append(cur, s[i]))

Split(s) == SplitFrom(s, 1, <<>>)

\* The decimal value of a sequence of digits.
RECURSIVE DigitsValue(_, _)
DigitsValue(s, acc) ==
    IF s = <<>> THEN acc ELSE DigitsValue(Tail(s), 10 * acc + DigitVal(Head(s)))

AllDigits(s) == \A i \in 1..Len(s) : IsDigit(s[i])

\* strconv.Atoi: an optional sign, then one or more decimal digits; anything
\* else is an error.
Atoi(s) ==
    LET signed == s # <<>> /\ s[1] \in {"+", "-"}
        body   == IF signed THEN Tail(s) ELSE s
    IN  IF body = <<>> \/ ~AllDigits(body)
        THEN [err |-> TRUE, val |-> 0]
        ELSE [err |-> FALSE,
              val |-> IF signed /\ s[1] = "-" THEN 0 - DigitsValue(body, 0)
                      ELSE DigitsValue(body, 0)]

\* ---------------------------------------------------------------- helpers
\* (mutant) the default target is scanned before the list
parseTargetsWithDefault(defaultTarget, targetList) ==
    IF targetList = <<>> THEN <<defaultTarget>> ELSE <<defaultTarget>> \o Split(targetList)

\* parseTargets: the default target, or the -targets list split at commas.
parseTargets(defaultTarget, targetList) ==
    IF targetList = <<>> THEN <<defaultTarget>> ELSE Split(targetList)

\* (mutant) port zero passes
PortAcceptedFromZero(a) == ~a.err /\ a.val >= 0 /\ a.val <= MaxPort

\* The test parsePorts applies to one entry of the -ports list.
PortAccepted(a) == ~a.err /\ a.val > 0 /\ a.val <= MaxPort

RECURSIVE ParseList(_)
ParseList(entries) ==
    IF entries = <<>> THEN <<>>
    ELSE LET a == Atoi(TrimSpace(Head(entries)))
         IN  (IF PortAccepted(a) THEN <<a.val>> ELSE <<>>) \o ParseList(Tail(entries))

\* (mutant) the loop stops before end: "p < end"
RangePortsBeforeEnd(start, end) == [i \in 1..(end - start) |-> start + i - 1]

\* The range loop of parsePorts: start, start+1, ..., end.
RangePorts(start, end) == [i \in 1..(end - start + 1) |-> start + i - 1]

parsePorts(portList, start, end) ==
    IF portList # <<>> THEN ParseList(Split(portList)) ELSE RangePorts(start, end)

\* ------------------------------------------------------------- the network
\* What the network answers to one probe of a port: how the connect attempt
\* ends and, for an established connection, how the single Read ends.
\*   conn: "ok", "refused", "timeout" (connect deadline hit), "unreachable",
\*         "dns" (the target name does not resolve)
\*   read: "data" (data has arrived), "err", "deadline" (read deadline hit),
\*         "eof" (closed by the peer, zero bytes)
Response(c, r, d) == [conn |-> c, read |-> r, data |-> d]

Refused == Response("refused", "eof", <<>>)
ConnTimeout == Response("timeout", "eof", <<>>)
Unreachable == Response("unreachable", "eof", <<>>)
DnsFailure == Response("dns", "eof", <<>>)
OpenReadErr == Response("ok", "err", <<>>)
OpenReadDeadline == Response("ok", "deadline", <<>>)
OpenEof == Response("ok", "eof", <<>>)
OpenData(d) == Response("ok", "data", d)

\* "SSH-2.0-OpenSSH_8.9\r\n"
SshGreeting ==
    <<"S", "S", "H", "-", "2", ".", "0", "-", "O", "p", "e", "n", "S", "S", "H",
      "_", "8", ".", "9", "\r", "\n">>

\* More than the read buffer holds: BufSize-1 letters, a space, one more letter.
LongData ==
    [i \in 1..(BufSize + 1) |->
        IF i < BufSize THEN "A" ELSE IF i = BufSize THEN " " ELSE "B"]

ShortGreeting == <<" ", "o", "k", "\r", "\n">>

\* The answers explored with the worker pool.
ScanResponses == {Refused, ConnTimeout, OpenReadDeadline, OpenData(ShortGreeting)}

\* The answers explored with a single probe.
ProbeResponses ==
    {Refused, ConnTimeout, Unreachable, DnsFailure, OpenReadErr, OpenReadDeadline,
     OpenEof}
    \cup {OpenData(d) : d \in {SshGreeting, ShortGreeting, LongData, <<"\r", "\n">>,
                               <<"a", " ", "b">>}}

\* ----------------------------------------------------------------- scanPort
NoBanner == <<>>

ScanResult(port, state, bannerText) ==
    [Port |-> port, State |-> state, Banner |-> bannerText]

\* (mutant) only a refused connection is taken for a failure
DialFailsRefusedOnly(resp) == resp.conn = "refused"

\* net.DialTimeout returns an error unless the connection is established.
DialFails(resp) == resp.conn # "ok"

\* n of "n, _ := conn.Read(buf)": the bytes one Read puts into the buffer.
ReadCount(resp) ==
    IF resp.read = "data"
    THEN (IF Len(resp.data) < BufSize THEN Len(resp.data) ELSE BufSize)
    ELSE 0

\* (mutant) the bytes read are stored as they are
BannerOfUntrimmed(resp, grabBanner) ==
    IF grabBanner /\ ReadCount(resp) > 0
    THEN Take(resp.data, ReadCount(resp))
    ELSE NoBanner

\* The banner scanPort stores after a successful connect.
BannerOf(resp, grabBanner) ==
    IF grabBanner /\ ReadCount(resp) > 0
    THEN TrimSpace(Take(resp.data, ReadCount(resp)))
    ELSE NoBanner

\* -------------------------------------------------------------------- state
VARIABLES
    flags,        \* the command line: target, targets, ports, startPort, endPort,
                  \* workers, banner, json
    net,          \* the network: the answer to a probe of each port
    pc,           \* where main is
    scanTargets,  \* main's scanTargets
    portsToScan,  \* main's portsToScan
    hi,           \* the index of the target main's loop is at
    scan,         \* scan[r]: the frame of the r-th call of scanHost, with the
                  \* channels and goroutines it made
    stdout,       \* the lines written to the standard output, in order, but for
                  \* the progress indicator
    indicator,    \* the progress indicator: each one is written over the last
                  \* ("\r"), so the terminal shows the latest
    elapsed       \* what time.Since(start) gives at the end of a run, in
                  \* nanoseconds (the unit of time.Duration)

vars ==
    <<flags, net, pc, scanTargets, portsToScan, hi, scan, stdout, indicator, elapsed>>

Runs == 1..MaxTargets

SeqRange(s) == {s[i] : i \in 1..Len(s)}

\* The bag of the elements of a sequence.
RECURSIVE SeqToBag(_)
SeqToBag(s) ==
    IF s = <<>> THEN EmptyBag ELSE SetToBag({Head(s)}) (+) SeqToBag(Tail(s))

BagAdd(b, x) == b (+) SetToBag({x})

\* The comma-separated lists of 1..n tokens of T.
RECURSIVE TokenLists(_, _)
TokenLists(T, n) ==
    IF n = 0 THEN {}
    ELSE T \cup {l \o <<",">> \o t : l \in TokenLists(T, n - 1), t \in T}

\* "a", "a,b", "a,b,a", ...
RECURSIVE HostList(_)
HostList(k) ==
    IF k = 1 THEN <<"a">>
    ELSE HostList(k - 1) \o <<",">> \o (IF k % 2 = 0 THEN <<"b">> ELSE <<"a">>)

DefaultTarget == <<"h">>

\* ------------------------------------------------------------------ frames
NoFrame == [started |-> FALSE]

NoResult == ScanResult(0, "", NoBanner)

NoSummary ==
    [Target |-> <<>>, OpenPorts |-> 0 - 1, ScannedPorts |-> 0 - 1, TimeTaken |-> 0 - 1,
     Ports |-> <<>>]

\* make(chan int, workers), make(chan ScanResult, len(ports)), make(chan int, workers)
TasksCap == flags.workers

ResultsCap == Len(portsToScan)

ProgressCap == flags.workers

\* A worker goroutine at "for port := range tasks", with nothing in hand.
IdleWorker == [pc |-> "recv", port |-> 0, res |-> NoResult, conn |-> "none"]

\* The worker goroutines have no name and no number: the workers of a run are
\* the bag of their local states. These are n workers that have just started.
IdleWorkers(n) == IF n = 0 THEN EmptyBag ELSE [st \in {IdleWorker} |-> n]

\* The workers ws after one of them went from local state st to local state to.
Step(ws, st, to) == (ws (-) SetToBag({st})) (+) SetToBag({to})

\* A frame of scanHost with n worker goroutines: three channels, the wait group
\* counting the workers, and the goroutines at their first statement.
\* enqueued, taken, probed, published, signalled and consumed record what has
\* happened to each port (history, not program state).
FrameWith(host, n) ==
    [started |-> TRUE, host |-> host,
     tasks |-> <<>>, tasksClosed |-> FALSE,
     results |-> <<>>, resultsClosed |-> FALSE,
     progress |-> <<>>, progressClosed |-> FALSE,
     wg |-> n,
     w |-> IdleWorkers(n),
     feeder |-> [pc |-> "send", i |-> 1],
     monitor |-> "recv",
     closer |-> "wait",
     openPorts |-> <<>>,
     summary |-> NoSummary,
     returned |-> FALSE,
     closes |-> 0,
     enqueued |-> EmptyBag, taken |-> EmptyBag, probed |-> EmptyBag,
     published |-> EmptyBag, signalled |-> EmptyBag, consumed |-> EmptyBag]

\* (mutant) one goroutine for each port instead of one for each worker
NewFramePerPort(host) == FrameWith(host, Len(portsToScan))

\* main.go:92-102: "for i := 0; i < workers; i++" starts the workers, each
\* counted by wg.Add(1).
NewFrame(host) == FrameWith(host, flags.workers)

NoIndicator == [run |-> 0, n |-> 0, total |-> 0]

\* The process lives until main returns, os.Exit is called or a goroutine panics.
Alive == pc \notin {"exit0", "exit1", "panic"}

Started(r) == scan[r].started

\* The local states the workers of run r are in.
WorkerStates(r) == IF Started(r) THEN DOMAIN scan[r].w ELSE {}

Put(r, f) == scan' = [scan EXCEPT ![r] = f]

\* --------------------------------------------------------------------- main
\* (mutant) the order of the two ends is not looked at
InvalidRangeNoOrder(start, end) == start < 1 \/ end > MaxPort

\* main.go:64: the range check that precedes everything else.
InvalidRange(start, end) == start < 1 \/ end > MaxPort \/ start > end

Main_Validate ==
    /\ pc = "validate"
    /\ pc' = IF InvalidRange(flags.startPort, flags.endPort) THEN "exit1" ELSE "parseTargets"
    /\ stdout' = IF InvalidRange(flags.startPort, flags.endPort)
                 THEN Append(stdout, [run |-> 0, out |-> [kind |-> "error"]])
                 ELSE stdout
    /\ UNCHANGED <<flags, net, scanTargets, portsToScan, hi, scan, indicator, elapsed>>

Main_ParseTargets ==
    /\ pc = "parseTargets"
    /\ scanTargets' = parseTargets(flags.target, flags.targets)
    /\ pc' = "parsePorts"
    /\ UNCHANGED <<flags, net, portsToScan, hi, scan, stdout, indicator, elapsed>>

Main_ParsePorts ==
    /\ pc = "parsePorts"
    /\ portsToScan' = parsePorts(flags.ports, flags.startPort, flags.endPort)
    /\ pc' = "loop"
    /\ hi' = 1
    /\ UNCHANGED <<flags, net, scanTargets, scan, stdout, indicator, elapsed>>

\* The loop "for _, host := range scanTargets" is over: main returns.
Main_Exit ==
    /\ pc = "loop"
    /\ hi > Len(scanTargets)
    /\ pc' = "exit0"
    /\ UNCHANGED <<flags, net, scanTargets, portsToScan, hi, scan, stdout, indicator, elapsed>>

\* ----------------------------------------------------------------- scanHost
\* main.go:83-124: make the channels, start the workers, the feeder, the
\* progress monitor and the closer.
ScanHost_Start(r) ==
    /\ pc = "loop"
    /\ hi = r
    /\ r <= Len(scanTargets)
    /\ Put(r, NewFrame(scanTargets[r]))
    /\ pc' = "collect"
    /\ UNCHANGED <<flags, net, scanTargets, portsToScan, hi, stdout, indicator, elapsed>>

\* A send on a channel: it panics on a closed channel and waits while the
\* buffer is full.
CanSend(ch, cap) == Len(ch) < cap

\* main.go:106-108: the feeder sends the next port to tasks.
F_Send(r) ==
    LET f == scan[r] IN
    /\ Alive /\ Started(r)
    /\ f.feeder.pc = "send"
    /\ f.feeder.i <= Len(portsToScan)
    /\ IF f.tasksClosed
       THEN pc' = "panic" /\ UNCHANGED scan
       ELSE /\ CanSend(f.tasks, TasksCap)
            /\ Put(r, [f EXCEPT !.tasks = Append(@, portsToScan[f.feeder.i]),
                                !.feeder.i = @ + 1,
                                !.enqueued = BagAdd(@, portsToScan[f.feeder.i])])
            /\ UNCHANGED pc
    /\ UNCHANGED <<flags, net, scanTargets, portsToScan, hi, stdout, indicator, elapsed>>

\* (mutant) the feeder ends without close(tasks)
F_CloseMissing(r) ==
    LET f == scan[r] IN
    /\ Alive /\ Started(r)
    /\ f.feeder.pc = "send"
    /\ f.feeder.i > Len(portsToScan)
    /\ Put(r, [f EXCEPT !.feeder.pc = "done"])
    /\ UNCHANGED <<flags, net, pc, scanTargets, portsToScan, hi, stdout, indicator,
                   elapsed>>

\* main.go:109: close(tasks) after the last port.
F_Close(r) ==
    LET f == scan[r] IN
    /\ Alive /\ Started(r)
    /\ f.feeder.pc = "send"
    /\ f.feeder.i > Len(portsToScan)
    /\ IF f.tasksClosed
       THEN pc' = "panic" /\ UNCHANGED scan
       ELSE Put(r, [f EXCEPT !.tasksClosed = TRUE, !.feeder.pc = "done"])
            /\ UNCHANGED pc
    /\ UNCHANGED <<flags, net, scanTargets, portsToScan, hi, stdout, indicator, elapsed>>

\* main.go:96: "for port := range tasks" takes the next port.
W_Recv(r, st) ==
    LET f == scan[r] IN
    /\ Alive /\ Started(r)
    /\ st \in DOMAIN f.w
    /\ st.pc = "recv"
    /\ f.tasks # <<>>
    /\ Put(r, [f EXCEPT !.tasks = Tail(@),
                        !.w = Step(@, st, [st EXCEPT !.pc = "dial",
                                                     !.port = Head(f.tasks)]),
                        !.taken = BagAdd(@, Head(f.tasks))])
    /\ UNCHANGED <<flags, net, pc, scanTargets, portsToScan, hi, stdout, indicator,
                   elapsed>>

\* main.go:95-96: tasks is closed and drained: the loop ends and the deferred
\* wg.Done() runs.
W_Exit(r, st) ==
    LET f == scan[r] IN
    /\ Alive /\ Started(r)
    /\ st \in DOMAIN f.w
    /\ st.pc = "recv"
    /\ f.tasks = <<>>
    /\ f.tasksClosed
    /\ Put(r, [f EXCEPT !.w = Step(@, st, [st EXCEPT !.pc = "done"]), !.wg = @ - 1])
    /\ UNCHANGED <<flags, net, pc, scanTargets, portsToScan, hi, stdout, indicator,
                   elapsed>>

\* main.go:143-156: scanPort dials; a failed dial returns the closed result, an
\* established connection makes the result open.
W_Dial(r, st) ==
    LET f    == scan[r]
        resp == net[st.port]
    IN
    /\ Alive /\ Started(r)
    /\ st \in DOMAIN f.w
    /\ st.pc = "dial"
    /\ Put(r, [f EXCEPT
            !.w = Step(@, st,
                    [st EXCEPT
                        !.pc   = IF DialFails(resp) THEN "sendResult" ELSE "connected",
                        !.res  = ScanResult(st.port,
                                            IF DialFails(resp) THEN "closed" ELSE "open",
                                            NoBanner),
                        !.conn = IF DialFails(resp) THEN "none" ELSE "open"]),
            !.probed = BagAdd(@, st.port)])
    /\ UNCHANGED <<flags, net, pc, scanTargets, portsToScan, hi, stdout, indicator,
                   elapsed>>

\* (mutant) the connection is closed only when the banner read gave data
W_FinishLeak(r, st) ==
    LET f    == scan[r]
        resp == net[st.port]
    IN
    /\ Alive /\ Started(r)
    /\ st \in DOMAIN f.w
    /\ st.pc = "connected"
    /\ Put(r, [f EXCEPT
            !.w = Step(@, st,
                    [st EXCEPT !.pc   = "sendResult",
                               !.res  = [@ EXCEPT !.Banner = BannerOf(resp, flags.banner)],
                               !.conn = IF flags.banner /\ resp.read # "data"
                                        THEN "open" ELSE "closed"])])
    /\ UNCHANGED <<flags, net, pc, scanTargets, portsToScan, hi, stdout, indicator,
                   elapsed>>

\* main.go:154-167: the optional banner read, the return, the deferred
\* conn.Close().
W_Finish(r, st) ==
    LET f    == scan[r]
        resp == net[st.port]
    IN
    /\ Alive /\ Started(r)
    /\ st \in DOMAIN f.w
    /\ st.pc = "connected"
    /\ Put(r, [f EXCEPT
            !.w = Step(@, st,
                    [st EXCEPT !.pc   = "sendResult",
                               !.res  = [@ EXCEPT !.Banner = BannerOf(resp, flags.banner)],
                               !.conn = "closed"])])
    /\ UNCHANGED <<flags, net, pc, scanTargets, portsToScan, hi, stdout, indicator,
                   elapsed>>

\* main.go:98: results <- res
W_SendResult(r, st) ==
    LET f == scan[r] IN
    /\ Alive /\ Started(r)
    /\ st \in DOMAIN f.w
    /\ st.pc = "sendResult"
    /\ IF f.resultsClosed
       THEN pc' = "panic" /\ UNCHANGED scan
       ELSE /\ CanSend(f.results, ResultsCap)
            /\ Put(r, [f EXCEPT !.results = Append(@, st.res),
                                !.w = Step(@, st, [st EXCEPT !.pc = "sendProgress"]),
                                !.published = BagAdd(@, st.res)])
            /\ UNCHANGED pc
    /\ UNCHANGED <<flags, net, scanTargets, portsToScan, hi, stdout, indicator, elapsed>>

\* main.go:99: progress <- port, and back to the head of the loop.
W_SendProgress(r, st) ==
    LET f == scan[r] IN
    /\ Alive /\ Started(r)
    /\ st \in DOMAIN f.w
    /\ st.pc = "sendProgress"
    /\ IF f.progressClosed
       THEN pc' = "panic" /\ UNCHANGED scan
       ELSE /\ CanSend(f.progress, ProgressCap)
            /\ Put(r, [f EXCEPT !.progress = Append(@, st.port),
                                !.w = Step(@, st, IdleWorker),
                                !.signalled = BagAdd(@, st.port)])
            /\ UNCHANGED pc
    /\ UNCHANGED <<flags, net, scanTargets, portsToScan, hi, stdout, indicator, elapsed>>

\* main.go:114: "for range progress" takes a completion event.
M_Recv(r) ==
    LET f == scan[r] IN
    /\ Alive /\ Started(r)
    /\ f.monitor = "recv"
    /\ f.progress # <<>>
    /\ Put(r, [f EXCEPT !.progress = Tail(@), !.monitor = "print"])
    /\ UNCHANGED <<flags, net, pc, scanTargets, portsToScan, hi, stdout, indicator,
                   elapsed>>

\* main.go:115: the indicator: len(results) of len(ports).
M_Print(r) ==
    LET f == scan[r] IN
    /\ Alive /\ Started(r)
    /\ f.monitor = "print"
    /\ indicator' = [run |-> r, n |-> Len(f.results), total |-> Len(portsToScan)]
    /\ Put(r, [f EXCEPT !.monitor = "recv"])
    /\ UNCHANGED <<flags, net, pc, scanTargets, portsToScan, hi, stdout, elapsed>>

\* main.go:114-116: progress is closed and drained: the monitor ends.
M_Exit(r) ==
    LET f == scan[r] IN
    /\ Alive /\ Started(r)
    /\ f.monitor = "recv"
    /\ f.progress = <<>>
    /\ f.progressClosed
    /\ Put(r, [f EXCEPT !.monitor = "done"])
    /\ UNCHANGED <<flags, net, pc, scanTargets, portsToScan, hi, stdout, indicator,
                   elapsed>>

\* (mutant) the closer goes on while one worker is still at work
WaitReturnsEarly(f) == f.wg <= 1

\* wg.Wait() returns when the counter is zero.
WaitReturns(f) == f.wg = 0

\* main.go:121
C_Wait(r) ==
    LET f == scan[r] IN
    /\ Alive /\ Started(r)
    /\ f.closer = "wait"
    /\ WaitReturns(f)
    /\ Put(r, [f EXCEPT !.closer = "closeResults"])
    /\ UNCHANGED <<flags, net, pc, scanTargets, portsToScan, hi, stdout, indicator,
                   elapsed>>

\* main.go:122: close(results)
C_CloseResults(r) ==
    LET f == scan[r] IN
    /\ Alive /\ Started(r)
    /\ f.closer = "closeResults"
    /\ IF f.resultsClosed
       THEN pc' = "panic" /\ UNCHANGED scan
       ELSE Put(r, [f EXCEPT !.resultsClosed = TRUE, !.closer = "closeProgress",
                             !.closes = @ + 1])
            /\ UNCHANGED pc
    /\ UNCHANGED <<flags, net, scanTargets, portsToScan, hi, stdout, indicator, elapsed>>

\* main.go:123: close(progress)
C_CloseProgress(r) ==
    LET f == scan[r] IN
    /\ Alive /\ Started(r)
    /\ f.closer = "closeProgress"
    /\ IF f.progressClosed
       THEN pc' = "panic" /\ UNCHANGED scan
       ELSE Put(r, [f EXCEPT !.progressClosed = TRUE, !.closer = "done"])
            /\ UNCHANGED pc
    /\ UNCHANGED <<flags, net, scanTargets, portsToScan, hi, stdout, indicator, elapsed>>

\* (mutant) the aggregator keeps every result
AccumulateAll(openPorts, res) == Append(openPorts, res)

\* main.go:128-130: the aggregator keeps the open results.
Accumulate(openPorts, res) ==
    IF res.State = "open" THEN Append(openPorts, res) ELSE openPorts

\* main.go:127-131: one turn of "for res := range results".
Collect(r) ==
    LET f == scan[r] IN
    /\ pc = "collect"
    /\ hi = r
    /\ f.results # <<>>
    /\ Put(r, [f EXCEPT !.results = Tail(@),
                        !.openPorts = Accumulate(@, Head(f.results)),
                        !.consumed = BagAdd(@, Head(f.results))])
    /\ UNCHANGED <<flags, net, pc, scanTargets, portsToScan, hi, stdout, indicator,
                   elapsed>>

\* main.go:133-139
Summary(host, ports, openPorts, took) ==
    [Target |-> host, OpenPorts |-> Len(openPorts), ScannedPorts |-> Len(ports),
     TimeTaken |-> took, Ports |-> openPorts]

\* (mutant) the aggregator stops at the first moment it finds results empty
RangeEndsWhenEmpty(f) == f.results = <<>>

\* "for res := range results" ends when results is closed and drained.
RangeEnds(f) == f.results = <<>> /\ f.resultsClosed

\* main.go:127-139: the loop ends and scanHost returns the summary.
ScanHost_Return(r) ==
    LET f == scan[r] IN
    /\ pc = "collect"
    /\ hi = r
    /\ RangeEnds(f)
    /\ Put(r, [f EXCEPT !.summary = Summary(f.host, portsToScan, f.openPorts, elapsed),
                        !.returned = TRUE])
    /\ pc' = "output"
    /\ UNCHANGED <<flags, net, scanTargets, portsToScan, hi, stdout, indicator, elapsed>>

\* ------------------------------------------------------------------ output
\* time.Millisecond, in the unit of time.Duration (nanoseconds).
Millisecond == 1000000

\* Duration.Round(m) for a duration that is not negative: to the nearest
\* multiple of m, halfway values away from zero.
Round(d, m) ==
    LET rest == d % m IN
    IF rest + rest < m THEN d - rest ELSE d + m - rest

\* The keys of a marshalled ScanResult: main.go:19-21, "banner,omitempty" leaves
\* an empty string out.
ResultKeys(res) ==
    {"port", "state"} \cup (IF res.Banner # NoBanner THEN {"banner"} ELSE {})

\* json.Marshal of a ScanResult: an object, here a function of its keys.
JsonResult(res) ==
    [k \in ResultKeys(res) |->
        CASE k = "port" -> res.Port
          [] k = "state" -> res.State
          [] k = "banner" -> res.Banner]

\* (mutant) the ports key is always written
SummaryKeysAll(summary) ==
    {"target", "open_ports", "scanned_ports", "time_taken_ms", "ports"}

\* The keys of a marshalled ScanSummary: main.go:26-30, "ports,omitempty" leaves
\* a nil or empty slice out.
SummaryKeys(summary) ==
    {"target", "open_ports", "scanned_ports", "time_taken_ms"}
        \cup (IF Len(summary.Ports) > 0 THEN {"ports"} ELSE {})

\* json.MarshalIndent of a ScanSummary, main.go:199. A time.Duration is an
\* int64 and is marshalled as that number: its count of nanoseconds.
JsonSummary(summary) ==
    [k \in SummaryKeys(summary) |->
        CASE k = "target" -> summary.Target
          [] k = "open_ports" -> summary.OpenPorts
          [] k = "scanned_ports" -> summary.ScannedPorts
          [] k = "time_taken_ms" -> summary.TimeTaken
          [] k = "ports" -> [i \in 1..Len(summary.Ports) |-> JsonResult(summary.Ports[i])]]

\* main.go:216-220: "%d/tcp %s", and " | %s" with a banner.
PortLine(res) ==
    <<res.Port, "/tcp ", res.State>>
        \o (IF res.Banner # NoBanner THEN <<" | ", res.Banner>> ELSE <<>>)

\* main.go:208-222: the report for a reader.
TextSummary(summary) ==
    [target |-> summary.Target,
     scanned |-> summary.ScannedPorts,
     open |-> summary.OpenPorts,
     duration |-> Round(summary.TimeTaken, Millisecond),
     lines |-> IF Len(summary.Ports) > 0
               THEN <<"OPEN PORTS:">>
                        \o [i \in 1..Len(summary.Ports) |-> PortLine(summary.Ports[i])]
               ELSE <<>>]

\* main.go:197-223
generateOutput(summary, jsonFormat) ==
    IF jsonFormat
    THEN [kind |-> "json", doc |-> JsonSummary(summary)]
    ELSE [kind |-> "text", doc |-> TextSummary(summary)]

\* main.go:77: generateOutput(results, *jsonOut), then the next target. The
\* run is noted with what was written.
Main_Output ==
    /\ pc = "output"
    /\ stdout' = Append(stdout, [run |-> hi,
                                 out |-> generateOutput(scan[hi].summary, flags.json)])
    /\ hi' = hi + 1
    /\ pc' = "loop"
    /\ UNCHANGED <<flags, net, scanTargets, portsToScan, scan, indicator, elapsed>>

\* ------------------------------------------------------------ specifications
\* The command lines explored with the worker pool: an explicit list of up to
\* MaxLen ports (a port may repeat), the list "0" (every entry dropped: nothing
\* to scan), or no list and a range.
ScanPortLists == TokenLists({<<"1">>, <<"2">>}, MaxLen) \cup {<<"0">>}

TargetLists == {<<>>} \cup {HostList(k) : k \in 2..MaxTargets}

\* One target with every worker count; several targets, one worker, one port
\* one or more times; a range instead of a list.
ScanFlags ==
    [target : {DefaultTarget}, targets : {<<>>}, ports : ScanPortLists,
     startPort : {1}, endPort : {1}, workers : 0..MaxWorkers, banner : BOOLEAN,
     json : {FALSE}]
    \cup
    [target : {DefaultTarget}, targets : TargetLists \ {<<>>},
     ports : TokenLists({<<"1">>}, MaxLen),
     startPort : {1}, endPort : {1}, workers : {1}, banner : {FALSE}, json : {FALSE}]
    \cup
    [target : {DefaultTarget}, targets : {<<>>}, ports : {<<>>},
     startPort : {0, 1, 2}, endPort : {1, 2, MaxPort + 1}, workers : {1},
     banner : {FALSE}, json : {FALSE}]

\* The ports a command line has probed, if any: none with a range that main
\* rejects.
ProbedPorts(fl) ==
    IF InvalidRange(fl.startPort, fl.endPort) THEN {}
    ELSE SeqRange(parsePorts(fl.ports, fl.startPort, fl.endPort))

\* A run of a millisecond and a half.
TypicalRun == 1500000

\* The state after flag.Parse(), for a command line of F, a network whose
\* answers are in R and a run time in D.
InitWith(F, R, D) ==
    /\ flags \in F
    /\ net \in [ProbedPorts(flags) -> R]
    /\ elapsed \in D
    /\ pc = "validate"
    /\ scanTargets = <<>>
    /\ portsToScan = <<>>
    /\ hi = 0
    /\ scan = [r \in Runs |-> NoFrame]
    /\ stdout = <<>>
    /\ indicator = NoIndicator

Init == InitWith(ScanFlags, ScanResponses, {TypicalRun})

Next ==
    \/ Main_Validate
    \/ Main_ParseTargets
    \/ Main_ParsePorts
    \/ Main_Exit
    \/ Main_Output
    \/ \E r \in Runs :
        \/ ScanHost_Start(r)
        \/ F_Send(r)
        \/ F_Close(r)
        \/ M_Recv(r)
        \/ M_Print(r)
        \/ M_Exit(r)
        \/ C_Wait(r)
        \/ C_CloseResults(r)
        \/ C_CloseProgress(r)
        \/ Collect(r)
        \/ ScanHost_Return(r)
        \/ \E st \in WorkerStates(r) :
            \/ W_Recv(r, st)
            \/ W_Exit(r, st)
            \/ W_Dial(r, st)
            \/ W_Finish(r, st)
            \/ W_SendResult(r, st)
            \/ W_SendProgress(r, st)

Spec == Init /\ [][Next]_vars

\* Go runs every goroutine that can run: a step that stays possible is taken.
FairSpec == Spec /\ WF_vars(Next)

\* A single probe: one port, one worker, every answer of the network.
ProbeFlags ==
    [target : {DefaultTarget}, targets : {<<>>},
     ports : {<<"1">>, <<"8", "0">>, <<"6", "5", "5", "3", "5">>},
     startPort : {1}, endPort : {1}, workers : {1}, banner : BOOLEAN, json : {FALSE}]

InitProbe == InitWith(ProbeFlags, ProbeResponses, {TypicalRun})

SpecProbe == InitProbe /\ [][Next]_vars

\* parsePorts alone: lists of up to MaxEntries entries, good and bad, and ranges.
ParseTokens ==
    {<<"2", "2">>, <<"8", "0">>, <<"4", "4", "3">>, <<"9", "9", "9", "9", "9">>,
     <<"-", "1">>, <<"0">>, <<"6", "5", "5", "3", "5">>, <<"6", "5", "5", "3", "6">>,
     <<" ", "2", "2", " ">>, <<"+", "7">>, <<"x">>, <<>>, <<"1", "x">>, <<"-">>}

\* "22,80,443,99999,-1"
ExampleList ==
    <<"2", "2", ",", "8", "0", ",", "4", "4", "3", ",", "9", "9", "9", "9", "9", ",",
      "-", "1">>

ParseFlags ==
    [target : {DefaultTarget}, targets : {<<>>},
     ports : TokenLists(ParseTokens, MaxEntries) \cup {ExampleList},
     startPort : {1, 2}, endPort : {2, 3}, workers : {1}, banner : {FALSE},
     json : {FALSE}]
    \cup
    [target : {DefaultTarget}, targets : {<<>>}, ports : {<<>>},
     startPort : {0, 1, 2, 5, MaxPort - 1}, endPort : {1, 2, 5, MaxPort, MaxPort + 1},
     workers : {1}, banner : {FALSE}, json : {FALSE}]

\* One target and one worker, with both renderings, every answer that bears on
\* the records of the summary, and run times on, between and at the middle of
\* two milliseconds.
OutputFlags ==
    [target : {DefaultTarget}, targets : {<<>>}, ports : {<<"1">>, <<"1", ",", "2">>},
     startPort : {1}, endPort : {1}, workers : {1}, banner : BOOLEAN, json : BOOLEAN]

OutputResponses == {Refused, OpenEof, OpenData(SshGreeting)}

OutputTimes == {0, 1499999, 1500000, 2000000, 1000000000}

InitOutput == InitWith(OutputFlags, OutputResponses, OutputTimes)

SpecOutput == InitOutput /\ [][Next]_vars

InitParse == InitWith(ParseFlags, {Refused}, {TypicalRun})

NextParse ==
    \/ Main_Validate
    \/ Main_ParseTargets
    \/ Main_ParsePorts

SpecParse == InitParse /\ [][NextParse]_vars

\* The program with a progress monitor that never takes a step.
NextNoMonitor ==
    \/ Main_Validate
    \/ Main_ParseTargets
    \/ Main_ParsePorts
    \/ Main_Exit
    \/ Main_Output
    \/ \E r \in Runs :
        \/ ScanHost_Start(r)
        \/ F_Send(r)
        \/ F_Close(r)
        \/ C_Wait(r)
        \/ C_CloseResults(r)
        \/ C_CloseProgress(r)
        \/ Collect(r)
        \/ ScanHost_Return(r)
        \/ \E st \in WorkerStates(r) :
            \/ W_Recv(r, st)
            \/ W_Exit(r, st)
            \/ W_Dial(r, st)
            \/ W_Finish(r, st)
            \/ W_SendResult(r, st)
            \/ W_SendProgress(r, st)

SpecNoMonitor == Init /\ [][NextNoMonitor]_vars

\* ------------------------------------------------------------------ claims
\* The frames of the calls of scanHost made so far.
StartedRuns == {r \in Runs : Started(r)}

\* The sum of the counts a bag gives to the elements of S.
RECURSIVE SumOver(_, _)
SumOver(S, b) ==
    IF S = {} THEN 0
    ELSE LET x == CHOOSE y \in S : TRUE IN b[x] + SumOver(S \ {x}, b)

\* How many of the outcomes in a bag of outcomes are for port p.
OutcomesFor(b, p) == SumOver({x \in DOMAIN b : x.Port = p}, b)

\* How many times port p is in the sequence ports.
Occurrences(ports, p) == Cardinality({i \in 1..Len(ports) : ports[i] = p})

\* A bag of ports holds every port as often as the sequence ports does.
SamePorts(b, ports) ==
    /\ DOMAIN b = SeqRange(ports)
    /\ \A p \in SeqRange(ports) : b[p] = Occurrences(ports, p)

\* C1: when scanHost has built its summary for a worker count of at least one,
\* every port of the sequence has been enqueued once, taken once, probed once,
\* and one outcome for it has been consumed by the aggregator: as many outcomes
\* consumed as there are ports, and for each port as many as the sequence holds
\* it.
C1_Complete ==
    \A r \in StartedRuns :
        (scan[r].returned /\ flags.workers >= 1) =>
            /\ SamePorts(scan[r].enqueued, portsToScan)
            /\ SamePorts(scan[r].taken, portsToScan)
            /\ SamePorts(scan[r].probed, portsToScan)
            /\ BagCardinality(scan[r].consumed) = Len(portsToScan)
            /\ \A p \in SeqRange(portsToScan) :
                   OutcomesFor(scan[r].consumed, p) = Occurrences(portsToScan, p)
            /\ \A x \in DOMAIN scan[r].consumed : x.Port \in SeqRange(portsToScan)

\* A run of two workers over a sequence that holds the same port twice returned.
C1_Witness ==
    /\ Started(1) /\ scan[1].returned
    /\ flags.workers = 2
    /\ Len(portsToScan) = 2 /\ portsToScan[1] = portsToScan[2]
    /\ BagCardinality(scan[1].consumed) = 2

\* A summary that reports nothing scanned and nothing open.
EmptySummary(sm) == sm.ScannedPorts = 0 /\ sm.OpenPorts = 0 /\ sm.Ports = <<>>

\* Some goroutine of the program can take a step.
CanStep == ENABLED Next

\* C2: with a worker count of at least one, whatever the network answers to each
\* probe, every call of scanHost returns (under fair scheduling); before it does,
\* some goroutine can always take a step (no deadlock); and for an empty port
\* sequence the summary reports nothing scanned, nothing open and no open port.
C2_Terminates ==
    /\ \A r \in Runs :
        (Started(r) /\ flags.workers >= 1) ~> (Started(r) /\ scan[r].returned)
    /\ [](\A r \in StartedRuns :
            /\ (flags.workers >= 1 /\ ~scan[r].returned) => CanStep
            /\ (flags.workers >= 1 /\ scan[r].returned /\ portsToScan = <<>>)
                   => EmptySummary(scan[r].summary))

\* scanHost returned the empty summary for an empty port sequence.
C2_Witness ==
    /\ Started(1) /\ scan[1].returned
    /\ flags.workers = 2
    /\ portsToScan = <<>>
    /\ EmptySummary(scan[1].summary)

\* C3: the results channel is closed once, and only after every worker has
\* ended and every outcome has been published; no send or close meets a closed
\* channel (that would be a panic); progress is closed after results; scanHost
\* has built its summary only with the results channel closed and every outcome
\* published and consumed.
C3_CompletionSignal ==
    /\ pc # "panic"
    /\ \A r \in StartedRuns :
        LET f == scan[r] IN
        flags.workers >= 1 =>
            /\ f.closes <= 1
            /\ f.resultsClosed = (f.closes = 1)
            /\ f.progressClosed => f.resultsClosed
            /\ f.resultsClosed =>
                /\ \A st \in DOMAIN f.w : st.pc = "done"
                /\ BagCardinality(f.published) = Len(portsToScan)
                /\ BagCardinality(f.signalled) = Len(portsToScan)
            /\ f.returned =>
                /\ f.resultsClosed
                /\ f.results = <<>>
                /\ f.consumed = f.published

\* A run of two workers and two ports has built its summary, after the one close
\* of results and before the close of progress.
C3_Witness ==
    /\ Started(1) /\ scan[1].returned
    /\ flags.workers = 2
    /\ Len(portsToScan) = 2
    /\ scan[1].closes = 1
    /\ scan[1].closer = "closeProgress"

\* The probes in flight in a run: the calls of scanPort that have not returned.
InFlight(r) ==
    SumOver({st \in WorkerStates(r) : st.pc \in {"dial", "connected"}}, scan[r].w)

\* C4: at any time at most as many probes are in flight as the worker count.
C4_BoundedConcurrency ==
    \A r \in StartedRuns : flags.workers >= 1 => InFlight(r) <= flags.workers

\* Two workers probe at once: with more ports than workers, one worker does not.
C4_Witness ==
    \/ /\ Started(1) /\ flags.workers = 2 /\ InFlight(1) = 2
    \/ /\ Started(1) /\ flags.workers = 1 /\ Len(portsToScan) = 2 /\ InFlight(1) = 1
       /\ scan[1].tasks # <<>>

\* The open-port records a target that answers each port in one way gives rise
\* to: one for each port of the sequence that accepts the connection.
ExpectedOpen ==
    {ScanResult(p, "open", BannerOf(net[p], flags.banner)) :
        p \in {q \in SeqRange(portsToScan) : net[q].conn = "ok"}}

\* C5: for a worker count between one and the number of ports, the set of
\* open-port records of the summary is the one the port sequence and the target
\* determine, whatever the worker count and the interleaving.
C5_SameOpenSet ==
    \A r \in StartedRuns :
        (scan[r].returned /\ 1 <= flags.workers /\ flags.workers <= Len(portsToScan)) =>
            SeqRange(scan[r].summary.Ports) = ExpectedOpen

\* Two workers, two open ports, reported in the order opposite to the sequence.
C5_Witness ==
    /\ Started(1) /\ scan[1].returned
    /\ flags.workers = 2
    /\ Len(portsToScan) = 2 /\ portsToScan[1] # portsToScan[2]
    /\ Len(scan[1].summary.Ports) = 2
    /\ scan[1].summary.Ports[1].Port = portsToScan[2]
    /\ scan[1].summary.Ports[2].Port = portsToScan[1]

\* The open outcomes of a bag of outcomes, as a bag.
OpenOnly(b) == [x \in {y \in DOMAIN b : y.State = "open"} |-> b[x]]

\* C6: in every summary, open_ports holds the consumed outcomes whose state is
\* open, each once, and none that is closed; open_count is the length of
\* open_ports, which is the number of probes that reported open.
C6_OpenPorts ==
    \A r \in StartedRuns :
        scan[r].returned =>
            LET sm == scan[r].summary IN
            /\ SeqToBag(sm.Ports) = OpenOnly(scan[r].consumed)
            /\ \A i \in 1..Len(sm.Ports) : sm.Ports[i].State = "open"
            /\ sm.OpenPorts = Len(sm.Ports)
            /\ sm.OpenPorts = BagCardinality(OpenOnly(scan[r].published))

\* A summary built from one open and one closed outcome.
C6_Witness ==
    /\ Started(1) /\ scan[1].returned
    /\ scan[1].summary.OpenPorts = 1
    /\ BagCardinality(scan[1].consumed) = 2
    /\ \E x \in DOMAIN scan[1].consumed : x.State = "closed"

\* C7: with a progress monitor that never takes a step, scanHost still returns
\* (until it has, some other goroutine can take a step), with the summary the
\* port sequence and the target determine.
C7_MonitorCosmetic ==
    \A r \in StartedRuns :
        flags.workers >= 1 =>
            /\ ~scan[r].returned => ENABLED NextNoMonitor
            /\ scan[r].returned =>
                /\ scan[r].summary.ScannedPorts = Len(portsToScan)
                /\ scan[r].summary.OpenPorts = Len(scan[r].summary.Ports)
                /\ SeqRange(scan[r].summary.Ports) = ExpectedOpen

\* The workers of run r that are in scanPort or have its result in hand.
AfterDial(r) == {st \in WorkerStates(r) : st.pc \in {"connected", "sendResult"}}

\* C8: scanPort gives one outcome for each call and never fails: a connect
\* attempt that fails for any reason gives state closed and no banner, with or
\* without banner grabbing; one that succeeds gives state open; the port of the
\* outcome is the port asked for and the state is open or closed.
C8_OneOutcome ==
    /\ pc # "panic"
    /\ \A r \in StartedRuns :
        /\ \A st \in AfterDial(r) :
            LET res  == st.res
                port == st.port
            IN  /\ res.Port = port
                /\ res.State \in {"open", "closed"}
                /\ net[port].conn # "ok" => (res.State = "closed" /\ res.Banner = NoBanner)
                /\ net[port].conn = "ok" => res.State = "open"
        /\ \A p \in SeqRange(portsToScan) :
            LET calls == IF p \in DOMAIN scan[r].probed THEN scan[r].probed[p] ELSE 0
                busy  == SumOver({st \in AfterDial(r) : st.port = p}, scan[r].w)
            IN  OutcomesFor(scan[r].published, p) + busy = calls

\* scanPort has returned for a target name that does not resolve, with banner
\* grabbing asked for.
C8_Witness ==
    /\ Started(1) /\ flags.banner
    /\ \E st \in WorkerStates(1) :
        /\ st.pc = "sendResult"
        /\ net[st.port].conn = "dns"
        /\ st.res.State = "closed"

\* "SSH-2.0-OpenSSH_8.9"
SshBanner ==
    <<"S", "S", "H", "-", "2", ".", "0", "-", "O", "p", "e", "n", "S", "S", "H",
      "_", "8", ".", "9">>

\* b is what is left of the first n bytes of d when the white space before and
\* after is taken away.
IsTrimOf(b, d, n) ==
    \E i \in 1..(n + 1), j \in 0..n :
        /\ b = SubSeq(d, i, j)
        /\ \A m \in 1..(i - 1) : IsSpace(d[m])
        /\ \A m \in (j + 1)..n : IsSpace(d[m])
        /\ b # <<>> => (~IsSpace(d[i]) /\ ~IsSpace(d[j]))

\* C9: after a successful connect the state is open whatever the banner read
\* does; with banner grabbing and a read of n > 0 bytes, n at most the buffer
\* size, the banner is those bytes without the surrounding white space (the SSH
\* greeting gives "SSH-2.0-OpenSSH_8.9"); with a read error, a read deadline hit,
\* zero bytes or no banner grabbing there is no banner.
C9_Banner ==
    \A r \in StartedRuns : \A st \in {x \in WorkerStates(r) : x.pc = "sendResult"} :
        LET res  == st.res
            resp == net[st.port]
            n    == IF Len(resp.data) < BufSize THEN Len(resp.data) ELSE BufSize
        IN  resp.conn = "ok" =>
                /\ res.State = "open"
                /\ Len(res.Banner) <= BufSize
                /\ IF flags.banner /\ resp.read = "data"
                   THEN IsTrimOf(res.Banner, resp.data, n)
                   ELSE res.Banner = NoBanner
                /\ (flags.banner /\ resp = OpenData(SshGreeting)) => res.Banner = SshBanner

\* The probe of a port that sends the SSH greeting has returned its banner.
C9_Witness ==
    /\ Started(1) /\ flags.banner
    /\ \E st \in WorkerStates(1) :
        /\ st.pc = "sendResult"
        /\ net[st.port] = OpenData(SshGreeting)
        /\ st.res.Banner = SshBanner

\* The entries of the list: the pieces between its commas.
Entries == Split(flags.ports)

\* Entry i, white space around it apart, is a decimal integer from 1 to 65535.
GoodEntry(i) ==
    LET a == Atoi(TrimSpace(Entries[i])) IN ~a.err /\ 1 <= a.val /\ a.val <= 65535

\* The good entries before entry i.
GoodBefore(i) == Cardinality({j \in 1..(i - 1) : GoodEntry(j)})

\* C10: for a list that is not empty, parsePorts returns the values of the
\* entries that are integers from 1 to 65535, in the order of the list, and
\* nothing else, whatever the range is ("22,80,443,99999,-1" gives 22, 80, 443).
C10_ExplicitList ==
    (pc = "loop" /\ flags.ports # <<>>) =>
        /\ Len(portsToScan) = Cardinality({i \in 1..Len(Entries) : GoodEntry(i)})
        /\ \A i \in 1..Len(Entries) :
            GoodEntry(i) =>
                portsToScan[GoodBefore(i) + 1] = Atoi(TrimSpace(Entries[i])).val
        /\ flags.ports = ExampleList => portsToScan = <<22, 80, 443>>

\* The list of the example has been parsed, with a range that is not used.
C10_Witness ==
    /\ pc = "loop"
    /\ flags.ports = ExampleList
    /\ flags.startPort = 2 /\ flags.endPort = 3
    /\ portsToScan = <<22, 80, 443>>

\* C11: with no list and 1 <= start <= end <= 65535, parsePorts returns the
\* integers from start to end, each once, ascending: end-start+1 of them, the
\* first start, the last end, each one more than the one before (start 1 and
\* end 5 give 1, 2, 3, 4, 5).
C11_Range ==
    (/\ pc = "loop"
     /\ flags.ports = <<>>
     /\ 1 <= flags.startPort /\ flags.startPort <= flags.endPort
     /\ flags.endPort <= 65535) =>
        /\ Len(portsToScan) = flags.endPort - flags.startPort + 1
        /\ portsToScan[1] = flags.startPort
        /\ portsToScan[Len(portsToScan)] = flags.endPort
        /\ \A i \in 1..(Len(portsToScan) - 1) : portsToScan[i + 1] = portsToScan[i] + 1
        /\ (flags.startPort = 1 /\ flags.endPort = 5) => portsToScan = <<1, 2, 3, 4, 5>>

\* The range of the example has been parsed.
C11_Witness ==
    /\ pc = "loop"
    /\ flags.ports = <<>>
    /\ flags.startPort = 1 /\ flags.endPort = 5
    /\ portsToScan = <<1, 2, 3, 4, 5>>

\* The entries of a target list, put together again with commas.
RECURSIVE JoinTargets(_)
JoinTargets(hosts) ==
    IF Len(hosts) = 0 THEN <<>>
    ELSE IF Len(hosts) = 1 THEN hosts[1]
    ELSE hosts[1] \o <<",">> \o JoinTargets(Tail(hosts))

\* The worker pool of run r has completed: every worker has ended, the wait
\* group is at zero and the results channel is closed.
PoolCompleted(r) ==
    /\ \A st \in WorkerStates(r) : st.pc = "done"
    /\ scan[r].wg = 0
    /\ scan[r].resultsClosed

\* The channels of a frame are empty and open, its workers at their first
\* statement, and nothing has gone through it.
FreshFrame(f) ==
    /\ f.tasks = <<>> /\ f.results = <<>> /\ f.progress = <<>>
    /\ ~f.tasksClosed /\ ~f.resultsClosed /\ ~f.progressClosed
    /\ f.w = IdleWorkers(flags.workers)
    /\ f.openPorts = <<>>
    /\ f.enqueued = EmptyBag /\ f.probed = EmptyBag /\ f.consumed = EmptyBag

\* C12: the targets are scanned one after the other in the order of the list.
\* The targets are the entries of the list (put together with commas they are
\* the list again); when main returns it has written one summary per target,
\* the i-th for the i-th target; run r+1 has started only when the pool of run
\* r has completed, its summary has been built and its output written; and a
\* run starts on a fresh frame, the frames of the other runs left as they are.
C12_Sequential ==
    /\ [](/\ (pc \in {"loop", "collect", "output", "exit0"} /\ flags.targets # <<>>) =>
                JoinTargets(scanTargets) = flags.targets
          /\ pc = "exit0" =>
                /\ Len(stdout) = Len(scanTargets)
                /\ \A i \in 1..Len(stdout) :
                       /\ stdout[i].run = i
                       /\ stdout[i].out.kind \in {"json", "text"}
                       /\ stdout[i].out.doc["target"] = scanTargets[i]
          /\ \A r \in StartedRuns :
                /\ scan[r].host = scanTargets[r]
                /\ r > 1 =>
                       /\ Started(r - 1)
                       /\ PoolCompleted(r - 1)
                       /\ scan[r - 1].returned
                       /\ scan[r - 1].summary.Target = scanTargets[r - 1]
                       /\ Len(stdout) >= r - 1
                       /\ stdout[r - 1].run = r - 1)
    /\ [][\A r \in Runs :
            (~Started(r) /\ scan'[r].started) =>
                /\ FreshFrame(scan'[r])
                /\ \A q \in Runs \ {r} : scan'[q] = scan[q]]_vars

\* main has returned after two targets, a summary written for each.
C12_Witness ==
    /\ pc = "exit0"
    /\ Len(scanTargets) = 2
    /\ Len(stdout) = 2
    /\ Started(2) /\ BagCardinality(scan[2].probed) > 0

\* C13: with a range whose start is under 1, whose end is over 65535 or whose
\* start is over its end, main does nothing but end with an error and the
\* exit status 1: no target and no port is parsed, no run is started (no
\* worker, no probe), and the step from the check is the step to the exit.
C13_InvalidRange ==
    /\ []((flags.startPort < 1 \/ flags.endPort > 65535
              \/ flags.startPort > flags.endPort) =>
            /\ pc \in {"validate", "exit1"}
            /\ scanTargets = <<>>
            /\ portsToScan = <<>>
            /\ StartedRuns = {}
            /\ pc = "validate" => stdout = <<>>
            /\ pc = "exit1" => (Len(stdout) = 1 /\ stdout[1].out.kind = "error"))
    /\ [][(pc = "validate" /\ (flags.startPort < 1 \/ flags.endPort > 65535
                                  \/ flags.startPort > flags.endPort)) =>
              pc' = "exit1"]_vars

\* main has ended with the exit status 1 on a range whose start is over its end.
C13_Witness ==
    /\ pc = "exit1"
    /\ flags.startPort = 2 /\ flags.endPort = 1
    /\ Len(stdout) = 1

\* The JSON documents written, each with the summary it renders.
JsonOutputs == {i \in 1..Len(stdout) : stdout[i].out.kind = "json"}

\* C14: a JSON document has the key ports exactly when its summary has open
\* ports, then with one record per open port, in order; a record has the key
\* banner exactly when the open port has a banner, and always port and state;
\* target, open_ports, scanned_ports and time_taken_ms are always there.
C14_OmitEmpty ==
    \A i \in JsonOutputs :
        LET doc == stdout[i].out.doc
            summary == scan[stdout[i].run].summary
        IN /\ {"target", "open_ports", "scanned_ports", "time_taken_ms"} \subseteq DOMAIN doc
           /\ DOMAIN doc \subseteq
                  {"target", "open_ports", "scanned_ports", "time_taken_ms", "ports"}
           /\ "ports" \in DOMAIN doc <=> summary.OpenPorts > 0
           /\ "ports" \in DOMAIN doc <=> summary.Ports # <<>>
           /\ "ports" \in DOMAIN doc =>
                  /\ Len(doc["ports"]) = Len(summary.Ports)
                  /\ \A j \in 1..Len(summary.Ports) :
                         LET rec == doc["ports"][j] IN
                         /\ {"port", "state"} \subseteq DOMAIN rec
                         /\ DOMAIN rec \subseteq {"port", "state", "banner"}
                         /\ "banner" \in DOMAIN rec <=> summary.Ports[j].Banner # <<>>
                         /\ rec["port"] = summary.Ports[j].Port

\* A document with two records, one with a banner and one without.
C14_Witness ==
    \E i \in JsonOutputs :
        /\ "ports" \in DOMAIN stdout[i].out.doc
        /\ Len(stdout[i].out.doc["ports"]) = 2
        /\ \E j, k \in 1..2 :
               /\ "banner" \in DOMAIN stdout[i].out.doc["ports"][j]
               /\ "banner" \notin DOMAIN stdout[i].out.doc["ports"][k]

\* C15: the scanned count of a returned summary is the number of outcomes the
\* aggregator consumed from results, for every port sequence and every worker
\* count, zero too.
C15_ScannedCount ==
    \A r \in StartedRuns :
        scan[r].returned =>
            scan[r].summary.ScannedPorts = BagCardinality(scan[r].consumed)

\* The completion events the monitor of run r has taken from progress: those
\* sent but for those still in the channel.
EventsObserved(r) == BagCardinality(scan[r].signalled) - Len(scan[r].progress)

\* C16: an indicator the monitor writes shows N/total with N the number of
\* completion events observed so far; in a run N never goes down and never
\* exceeds total, and the indicator for the last event shows total/total.
C16_Indicator ==
    /\ [][\A r \in Runs :
            M_Print(r) =>
                /\ indicator'.n = EventsObserved(r)
                /\ indicator'.n <= indicator'.total
                /\ indicator.run = r => indicator'.n >= indicator.n]_vars
    /\ [](\A r \in StartedRuns :
            (scan[r].monitor = "done" /\ indicator.run = r) =>
                indicator.n = indicator.total)

\* The workers of run r that have published the outcome of port p and not yet
\* its completion event.
Unsignalled(r, p) ==
    SumOver({st \in WorkerStates(r) : st.pc = "sendProgress" /\ st.port = p}, scan[r].w)

\* How many completion events for port p were published in run r.
EventsFor(r, p) == IF p \in DOMAIN scan[r].signalled THEN scan[r].signalled[p] ELSE 0

\* C17: for every port, the completion events published are the outcomes
\* published less those of the workers between the two sends (an event for each
\* port finished, after its outcome); once progress is closed the events
\* published are as many as the ports of the sequence; and a step of the
\* monitor leaves the results channel as it is.
C17_Events ==
    /\ [](\A r \in StartedRuns :
            /\ \A p \in SeqRange(portsToScan) :
                   EventsFor(r, p) + Unsignalled(r, p) = OutcomesFor(scan[r].published, p)
            /\ DOMAIN scan[r].signalled \subseteq SeqRange(portsToScan)
            /\ scan[r].progressClosed =>
                   BagCardinality(scan[r].signalled) = Len(portsToScan))
    /\ [][\A r \in Runs :
            (M_Recv(r) \/ M_Print(r) \/ M_Exit(r)) =>
                scan'[r].results = scan[r].results]_vars

\* C18: when scanHost has returned for a run, the feeder, the workers, the
\* closer and the monitor of the run have ended, and no indicator of the run
\* is written from then on.
C18_Quiescent ==
    /\ [](\A r \in StartedRuns :
            scan[r].returned =>
                /\ scan[r].feeder.pc = "done"
                /\ \A st \in WorkerStates(r) : st.pc = "done"
                /\ scan[r].closer = "done"
                /\ scan[r].monitor = "done")
    /\ [][\A r \in Runs : (Started(r) /\ scan[r].returned) => ~M_Print(r)]_vars

\* The connections run r holds open.
OpenConns(r) == SumOver({st \in WorkerStates(r) : st.conn = "open"}, scan[r].w)

\* C19: a worker holds an open connection only inside scanPort, between a dial
\* that succeeded and the return; once scanPort has returned the connection it
\* opened is closed, with or without a banner read and whatever the read gave;
\* so the open connections are never more than the probes in flight.
C19_Released ==
    \A r \in StartedRuns :
        /\ \A st \in WorkerStates(r) :
               /\ st.conn = "open" => st.pc = "connected"
               /\ (st.pc = "sendResult" /\ net[st.port].conn = "ok") => st.conn = "closed"
               /\ st.pc \in {"sendProgress", "recv", "done"} => st.conn # "open"
        /\ OpenConns(r) <= InFlight(r)

\* scanPort has returned after a banner read that hit its deadline, with the
\* connection closed.
C19_Witness ==
    /\ Started(1) /\ flags.banner
    /\ \E st \in WorkerStates(1) :
           /\ st.pc = "sendResult"
           /\ net[st.port] = OpenReadDeadline
           /\ st.conn = "closed"
           /\ st.res.State = "open"

\* C20: the number under time_taken_ms in a JSON document is the run time in
\* whole milliseconds: the run time cut or rounded to the millisecond, the
\* value the report for a reader shows.
C20_Milliseconds ==
    \A i \in JsonOutputs :
        stdout[i].out.doc["time_taken_ms"] \in
            {elapsed \div Millisecond, Round(elapsed, Millisecond) \div Millisecond}

====
